---- MODULE Spec2Model ----
(***************************************************************************)
(* TcpSocket::Bind and TcpSocket::Connect of lib/base/tcpsocket.cpp as a   *)
(* state machine.  One TcpSocket object is modelled; it is called up to    *)
(* MaxCalls times.  Every system call of a Bind/Connect call is one step,  *)
(* and the system (resolver, kernel) chooses each step's outcome.          *)
(*                                                                         *)
(* The resolver follows getaddrinfo's contract: a zero status comes with a *)
(* list of at least one addrinfo, a non-zero status with no list.          *)
(***************************************************************************)
EXTENDS Integers, Sequences, FiniteSets, TLC

\* ------------------------------------------------------------- bounds
MaxCand == 3          \* longest list the resolver answers with
MaxCalls == 2         \* calls made on the one TcpSocket object

\* ---------------------------------------------------------- constants
INVALID_SOCKET == -1

Unset == "unset"                       \* a local that was never assigned
Families == {"AF_INET", "AF_INET6"}
FamilyArgs == {"AF_UNSPEC"} \cup Families
Nodes == {"", "host"}
GaiErrors == {"EAI_NONAME", "EAI_AGAIN"}      \* non-zero getaddrinfo statuses
Errnos == {"EACCES", "EADDRINUSE"}            \* what a failing socket/bind/connect sets
ApiNames == {"socket", "bind", "connect"}

VARIABLES
    pc,          \* position of the running call
    op,          \* "Bind" | "Connect" | "none": the running (or last) call
    win32,       \* the build: TRUE when _WIN32 is defined
    hostArg,     \* first argument handed to getaddrinfo: "NULL" or the node
    hints,       \* the addrinfo hints
    rc,          \* getaddrinfo's status
    result,      \* the resolver's list: a sequence of candidates
    resultState, \* "none" | "live" | "freed"
    info,        \* loop cursor: index into result, Len(result)+1 is NULL
    fd,          \* the local fd
    error,       \* the local error
    func,        \* the local func
    m_FD,        \* the owning Socket's descriptor (GetFD/SetFD)
    errno,       \* the platform's last-error value
    open,        \* descriptors open in the process that TcpSocket created
    \* ---- observations of the running call, reset when a call starts
    mine,        \* descriptors created by this call that are still open
    sock,        \* the descriptor last created by this call
    results,     \* the step that ended each candidate tried so far, in order
    lastFail,    \* the system's most recent failure: candidate, step, code
    steps,       \* how often each step ran in this call
    useAfterFree,\* a candidate was read after freeaddrinfo
    startFD,     \* m_FD when the call started
    outcome,     \* "none" | "returned" | "raised"
    exc,         \* the exception raised
    calls,       \* calls started so far
    args         \* the running call's entry point and arguments

vars == <<pc, op, win32, hostArg, hints, rc, result, resultState, info, fd,
          error, func, m_FD, errno, open, mine, sock, results, lastFail,
          steps, useAfterFree, startFD, outcome, exc, calls,
                   args>>

callLocals == <<hostArg, hints, rc, result, resultState, info, fd, error, func>>

NoHints == [ai_family |-> "none", ai_socktype |-> "none",
            ai_protocol |-> "none", ai_flags |-> "none"]
NoSock == [fd |-> INVALID_SOCKET, cand |-> 0, family |-> "none",
           v6only |-> "default", reuseaddr |-> FALSE, state |-> "none"]
NoFail == [cand |-> 0, step |-> "none", err |-> "none"]
NoArgs == [entry |-> "none", node |-> "", family |-> "none"]
NoExc == [api |-> "none", code |-> "none", kind |-> "none"]
StepNames == {"getaddrinfo", "read", "socket", "v6only", "reuseaddr", "bind",
              "connect", "closesocket", "SetFD", "freeaddrinfo", "critical",
              "FormatErrorNumber"}
NoSteps == [s \in StepNames |-> 0]

Count(s) == steps[s]
Bump(names) == [s \in StepNames |-> IF s \in names THEN steps[s] + 1 ELSE steps[s]]

\* The lowest descriptor number not in use, as socket() hands out.
LowestFree(used) ==
    CHOOSE n \in 1..(Cardinality(used) + 1) :
        n \notin used /\ \A m \in 1..(n - 1) : m \in used

\* Lists the resolver can answer with for the hinted family.
CandidateLists(family) ==
    LET fams == IF family = "AF_UNSPEC" THEN Families ELSE {family}
    IN  UNION {[1..n -> [family : fams]] : n \in 1..MaxCand}

Init ==
    /\ pc = "idle"
    /\ op = "none"
    /\ win32 \in BOOLEAN
    /\ hostArg = Unset
    /\ hints = NoHints
    /\ rc = Unset
    /\ result = <<>>
    /\ resultState = "none"
    /\ info = 0
    /\ fd = INVALID_SOCKET
    /\ error = Unset
    /\ func = Unset
    /\ m_FD = INVALID_SOCKET
    /\ errno = "0"
    /\ open = {}
    /\ mine = {}
    /\ sock = NoSock
    /\ results = <<>>
    /\ lastFail = NoFail
    /\ steps = NoSteps
    /\ useAfterFree = FALSE
    /\ startFD = INVALID_SOCKET
    /\ outcome = "none"
    /\ exc = NoExc
    /\ calls = 0
    /\ args = NoArgs

\* A call starts: fresh locals (unassigned), fresh observations.
Enter(name, host, h) ==
    /\ pc \in {"idle", "done"}
    /\ calls < MaxCalls
    /\ calls' = calls + 1
    /\ op' = name
    /\ hostArg' = host
    /\ hints' = h
    /\ rc' = Unset
    /\ result' = <<>>
    /\ resultState' = "none"
    /\ info' = 0
    /\ fd' = INVALID_SOCKET
    /\ error' = Unset
    /\ func' = Unset
    /\ mine' = {}
    /\ sock' = NoSock
    /\ results' = <<>>
    /\ lastFail' = NoFail
    /\ steps' = NoSteps
    /\ useAfterFree' = FALSE
    /\ startFD' = m_FD
    /\ outcome' = "none"
    /\ exc' = NoExc
    /\ pc' = "getaddrinfo"
    /\ UNCHANGED <<win32, m_FD, errno, open>>

BindHints(family) ==
    [ai_family |-> family, ai_socktype |-> "SOCK_STREAM",
     ai_protocol |-> "IPPROTO_TCP", ai_flags |-> "AI_PASSIVE"]

ConnectHints ==
    [ai_family |-> "AF_UNSPEC", ai_socktype |-> "SOCK_STREAM",
     ai_protocol |-> "IPPROTO_TCP", ai_flags |-> "0"]

\* Bind(node, service, family), up to the getaddrinfo call.
BindNode(node, family) ==
    Enter("Bind", IF node = "" THEN "NULL" ELSE node, BindHints(family))

\* Mutant: the two-argument Bind resolves without AI_PASSIVE (loopback).
BindService_NotPassive(family) ==
    Enter("Bind", "NULL", [BindHints(family) EXCEPT !.ai_flags = "0"])

\* Bind(service, family): Bind(String(), service, family).
BindService(family) == BindNode("", family)

CallBind ==
    \E node \in Nodes, family \in FamilyArgs :
        /\ BindNode(node, family)
        /\ args' = [entry |-> "Bind/3", node |-> node, family |-> family]

CallBindService ==
    \E family \in FamilyArgs :
        /\ BindService(family)
        /\ args' = [entry |-> "Bind/2", node |-> "", family |-> family]

\* Connect(node, service), up to the getaddrinfo call.
CallConnect ==
    \E node \in Nodes :
        /\ Enter("Connect", node, ConnectHints)
        /\ args' = [entry |-> "Connect", node |-> node, family |-> "none"]

\* ------------------------------------------------------------ resolving

\* Mutant: a failed resolution falls through into the candidate loop.
GetAddrInfoFails_FallsThrough ==
    /\ pc = "getaddrinfo"
    /\ \E e \in GaiErrors : rc' = e
    /\ steps' = Bump({"getaddrinfo"})
    /\ fd' = INVALID_SOCKET
    /\ info' = 1
    /\ pc' = "loop"
    /\ UNCHANGED <<op, win32, hostArg, hints, result, resultState, error, func,
                   m_FD, errno, open, mine, sock, results, lastFail,
                   useAfterFree, startFD, outcome, exc, calls,
                   args>>

\* Mutant: a failed resolution is tried again.
GetAddrInfoFails_Retries ==
    /\ pc = "getaddrinfo"
    /\ \E e \in GaiErrors : rc' = e
    /\ steps' = Bump({"getaddrinfo"})
    /\ pc' = IF Count("getaddrinfo") = 0 THEN "getaddrinfo" ELSE "gai_log"
    /\ UNCHANGED <<op, win32, hostArg, hints, result, resultState, info, fd, error,
                   func, m_FD, errno, open, mine, sock, results, lastFail,
                   useAfterFree, startFD, outcome, exc, calls,
                   args>>

\* getaddrinfo returns non-zero: rc != 0.
GetAddrInfoFails ==
    /\ pc = "getaddrinfo"
    /\ \E e \in GaiErrors : rc' = e
    /\ steps' = Bump({"getaddrinfo"})
    /\ pc' = "gai_log"
    /\ UNCHANGED <<op, win32, hostArg, hints, result, resultState, info, fd, error,
                   func, m_FD, errno, open, mine, sock, results, lastFail,
                   useAfterFree, startFD, outcome, exc, calls,
                   args>>

\* Log(LogCritical) "getaddrinfo() failed with error code" rc, gai_strerror(rc).
LogResolveFailure ==
    /\ pc = "gai_log"
    /\ steps' = Bump({"critical"})
    /\ pc' = "gai_throw"
    /\ UNCHANGED <<op, win32, callLocals, m_FD, errno, open, mine, sock, results,
                   lastFail, useAfterFree, startFD, outcome, exc, calls,
                   args>>

\* throw socket_error: api "getaddrinfo", errinfo_getaddrinfo_error(rc).
ThrowResolveError ==
    /\ pc = "gai_throw"
    /\ exc' = [api |-> "getaddrinfo", code |-> rc, kind |-> "getaddrinfo_error"]
    /\ outcome' = "raised"
    /\ pc' = "done"
    /\ UNCHANGED <<op, win32, callLocals, m_FD, errno, open, mine, sock, results,
                   lastFail, steps, useAfterFree, startFD, calls,
                   args>>

\* getaddrinfo returns 0 with its list; fd = INVALID_SOCKET; info = result.
GetAddrInfoSucceeds ==
    /\ pc = "getaddrinfo"
    /\ \E l \in CandidateLists(hints.ai_family) : result' = l
    /\ rc' = "0"
    /\ resultState' = "live"
    /\ fd' = INVALID_SOCKET
    /\ info' = 1
    /\ steps' = Bump({"getaddrinfo"})
    /\ pc' = "loop"
    /\ UNCHANGED <<op, win32, hostArg, hints, error, func, m_FD, errno, open, mine,
                   sock, results, lastFail, useAfterFree, startFD, outcome, exc, calls,
                   args>>

\* ------------------------------------------------------ the candidate loop

ReadsCandidate == useAfterFree' = (useAfterFree \/ resultState # "live")

\* Mutant: a failed socket() continues without recording error and func.
SocketFails_NoRecord ==
    /\ pc = "loop"
    /\ info <= Len(result)
    /\ \E e \in Errnos :
        /\ errno' = e
        /\ lastFail' = [cand |-> info, step |-> "socket", err |-> e]
    /\ results' = Append(results, [cand |-> info, step |-> "socket"])
    /\ fd' = INVALID_SOCKET
    /\ info' = info + 1
    /\ steps' = Bump({"socket", "read"})
    /\ ReadsCandidate
    /\ UNCHANGED <<pc, op, win32, hostArg, hints, rc, result, resultState, m_FD,
                   error, func, open, mine, sock, startFD, outcome, exc, calls,
                   args>>

\* Mutant: a failed socket() tries the same candidate again.
SocketFails_Retries ==
    /\ pc = "loop"
    /\ info <= Len(result)
    /\ \E e \in Errnos :
        /\ errno' = e
        /\ error' = e
        /\ lastFail' = [cand |-> info, step |-> "socket", err |-> e]
    /\ results' = results
    /\ fd' = INVALID_SOCKET
    /\ func' = "socket"
    /\ info' = info
    /\ steps' = [steps EXCEPT !["socket"] = IF @ < 2 * MaxCand THEN @ + 1 ELSE @]
    /\ ReadsCandidate
    /\ UNCHANGED <<pc, op, win32, hostArg, hints, rc, result, resultState, m_FD,
                   open, mine, sock, startFD, outcome, exc, calls, args>>

\* Mutant: a failed socket() steps over the next candidate.
SocketFails_SkipsNext ==
    /\ pc = "loop"
    /\ info <= Len(result)
    /\ \E e \in Errnos :
        /\ errno' = e
        /\ error' = e
        /\ lastFail' = [cand |-> info, step |-> "socket", err |-> e]
    /\ results' = Append(results, [cand |-> info, step |-> "socket"])
    /\ fd' = INVALID_SOCKET
    /\ func' = "socket"
    /\ info' = info + 2
    /\ steps' = Bump({"socket", "read"})
    /\ ReadsCandidate
    /\ UNCHANGED <<pc, op, win32, hostArg, hints, rc, result, resultState, m_FD,
                   open, mine, sock, startFD, outcome, exc, calls,
                   args>>

\* socket() returns INVALID_SOCKET: error = errno; func = "socket"; continue.
SocketFails ==
    /\ pc = "loop"
    /\ info <= Len(result)
    /\ \E e \in Errnos :
        /\ errno' = e
        /\ error' = e
        /\ lastFail' = [cand |-> info, step |-> "socket", err |-> e]
    /\ results' = Append(results, [cand |-> info, step |-> "socket"])
    /\ fd' = INVALID_SOCKET
    /\ func' = "socket"
    /\ info' = info + 1
    /\ steps' = Bump({"socket", "read"})
    /\ ReadsCandidate
    /\ UNCHANGED <<pc, op, win32, hostArg, hints, rc, result, resultState, m_FD,
                   open, mine, sock, startFD, outcome, exc, calls,
                   args>>

\* socket() returns a descriptor.
SocketSucceeds ==
    /\ pc = "loop"
    /\ info <= Len(result)
    /\ LET new == LowestFree(open)
       IN  /\ fd' = new
           /\ open' = open \cup {new}
           /\ mine' = mine \cup {new}
           /\ sock' = [fd |-> new, cand |-> info, family |-> result[info].family,
                       v6only |-> "default", reuseaddr |-> FALSE, state |-> "created"]
    /\ steps' = Bump({"socket", "read"})
    /\ ReadsCandidate
    /\ pc' = IF op = "Bind" THEN "v6only" ELSE "connect"
    /\ UNCHANGED <<op, win32, hostArg, hints, rc, result, resultState, info, error,
                   func, m_FD, errno, results, lastFail, startFD, outcome, exc, calls,
                   args>>

\* Mutant: a failed IPV6_V6ONLY is treated as the candidate's failure.
SetV6Only_FailureAborts ==
    /\ pc = "v6only"
    /\ \/ /\ sock.family = "AF_INET6"
          /\ sock' = [sock EXCEPT !.v6only = "cleared"]
          /\ pc' = IF win32 THEN "bind" ELSE "reuseaddr"
          /\ UNCHANGED <<errno, error, func>>
       \/ /\ errno' = "ENOPROTOOPT"
          /\ error' = "ENOPROTOOPT"
          /\ func' = "setsockopt"
          /\ pc' = "close"
          /\ UNCHANGED sock
    /\ steps' = Bump({"v6only"})
    /\ UNCHANGED <<op, win32, hostArg, hints, rc, result, resultState, info, fd,
                   m_FD, open, mine, results, lastFail, useAfterFree, startFD,
                   outcome, exc, calls,
                   args>>

\* setsockopt(fd, IPPROTO_IPV6, IPV6_V6ONLY, 0); its result is ignored.  The
\* option exists on an AF_INET6 socket only.
SetV6Only ==
    /\ pc = "v6only"
    /\ \/ /\ sock.family = "AF_INET6"
          /\ sock' = [sock EXCEPT !.v6only = "cleared"]
          /\ UNCHANGED errno
       \/ /\ errno' = "ENOPROTOOPT"
          /\ UNCHANGED sock
    /\ steps' = Bump({"v6only"})
    /\ pc' = IF win32 THEN "bind" ELSE "reuseaddr"
    /\ UNCHANGED <<op, win32, hostArg, hints, rc, result, resultState, info, fd,
                   error, func, m_FD, open, mine, results, lastFail, useAfterFree, startFD,
                   outcome, exc, calls,
                   args>>

\* #ifndef _WIN32: setsockopt(fd, SOL_SOCKET, SO_REUSEADDR, 1); result ignored.
SetReuseAddr ==
    /\ pc = "reuseaddr"
    /\ \/ /\ sock' = [sock EXCEPT !.reuseaddr = TRUE]
          /\ UNCHANGED errno
       \/ /\ errno' = "ENOPROTOOPT"
          /\ UNCHANGED sock
    /\ steps' = Bump({"reuseaddr"})
    /\ pc' = "bind"
    /\ UNCHANGED <<op, win32, hostArg, hints, rc, result, resultState, info, fd,
                   error, func, m_FD, open, mine, results, lastFail, useAfterFree, startFD,
                   outcome, exc, calls,
                   args>>

\* Mutant: SetFD(fd) is called before the result of bind()/connect() is tested.
AttemptFails_SetsFD(name) ==
    /\ pc = name
    /\ \E e \in Errnos :
        /\ errno' = e
        /\ error' = e
        /\ lastFail' = [cand |-> info, step |-> name, err |-> e]
    /\ results' = Append(results, [cand |-> info, step |-> name])
    /\ func' = name
    /\ m_FD' = fd
    /\ sock' = [sock EXCEPT !.state = "failed"]
    /\ steps' = Bump({name, "read", "SetFD"})
    /\ ReadsCandidate
    /\ pc' = "close"
    /\ UNCHANGED <<op, win32, hostArg, hints, rc, result, resultState, info, fd,
                   open, mine, startFD, outcome, exc, calls, args>>

\* Mutant: a failed bind()/connect() continues without closesocket.
AttemptFails_NoClose(name) ==
    /\ pc = name
    /\ \E e \in Errnos :
        /\ errno' = e
        /\ error' = e
        /\ lastFail' = [cand |-> info, step |-> name, err |-> e]
    /\ results' = Append(results, [cand |-> info, step |-> name])
    /\ func' = name
    /\ sock' = [sock EXCEPT !.state = "failed"]
    /\ steps' = Bump({name, "read"})
    /\ ReadsCandidate
    /\ info' = info + 1
    /\ pc' = "loop"
    /\ UNCHANGED <<op, win32, hostArg, hints, rc, result, resultState, fd,
                   m_FD, open, mine, startFD, outcome, exc, calls,
                   args>>

\* bind()/connect() returns < 0: error = errno; func = name; then closesocket.
AttemptFails(name) ==
    /\ pc = name
    /\ \E e \in Errnos :
        /\ errno' = e
        /\ error' = e
        /\ lastFail' = [cand |-> info, step |-> name, err |-> e]
    /\ results' = Append(results, [cand |-> info, step |-> name])
    /\ func' = name
    /\ sock' = [sock EXCEPT !.state = "failed"]
    /\ steps' = Bump({name, "read"})
    /\ ReadsCandidate
    /\ pc' = "close"
    /\ UNCHANGED <<op, win32, hostArg, hints, rc, result, resultState, info, fd,
                   m_FD, open, mine, startFD, outcome, exc, calls,
                   args>>

\* Mutant: a successful bind()/connect() hands the descriptor over and goes on
\* with the next candidate (the break is missing).
AttemptSucceeds_NoBreak(name) ==
    /\ pc = name
    /\ sock' = [sock EXCEPT !.state = IF name = "bind" THEN "bound" ELSE "connected"]
    /\ results' = Append(results, [cand |-> info, step |-> "ok"])
    /\ m_FD' = fd
    /\ steps' = Bump({name, "read", "SetFD"})
    /\ ReadsCandidate
    /\ info' = info + 1
    /\ pc' = "loop"
    /\ UNCHANGED <<op, win32, hostArg, hints, rc, result, resultState, fd,
                   error, func, errno, open, mine, lastFail, startFD, outcome, exc,
                   calls,
                   args>>

\* bind()/connect() succeeds: SetFD(fd); break.
AttemptSucceeds(name) ==
    /\ pc = name
    /\ sock' = [sock EXCEPT !.state = IF name = "bind" THEN "bound" ELSE "connected"]
    /\ results' = Append(results, [cand |-> info, step |-> "ok"])
    /\ m_FD' = fd
    /\ steps' = Bump({name, "read", "SetFD"})
    /\ ReadsCandidate
    /\ pc' = "free"
    /\ UNCHANGED <<op, win32, hostArg, hints, rc, result, resultState, info, fd,
                   error, func, errno, open, mine, lastFail, startFD, outcome, exc,
                   calls,
                   args>>

BindFails == AttemptFails("bind")

BindSucceeds == AttemptSucceeds("bind")

\* Mutant: Connect alone continues after a failed connect() without closesocket.
ConnectFails_NoClose == AttemptFails_NoClose("connect")

ConnectFails == AttemptFails("connect")

ConnectSucceeds == AttemptSucceeds("connect")

\* Mutant: the failed candidate's descriptor is left open.
CloseSocket_KeepsOpen ==
    /\ pc = "close"
    /\ sock' = [NoSock EXCEPT !.cand = sock.cand, !.state = "closed"]
    /\ info' = info + 1
    /\ pc' = "loop"
    /\ UNCHANGED <<op, win32, hostArg, hints, rc, result, resultState, fd, error,
                   func, m_FD, errno, open, mine, steps, results, lastFail,
                   useAfterFree, startFD, outcome, exc, calls,
                   args>>

\* Mutant: the error code is read after closesocket instead of before it.
CloseSocket_ReadsErrorLate ==
    /\ pc = "close"
    /\ open' = open \ {fd}
    /\ mine' = mine \ {fd}
    /\ sock' = [NoSock EXCEPT !.cand = sock.cand, !.state = "closed"]
    /\ errno' \in {errno, "EINTR"}
    /\ error' = errno'
    /\ info' = info + 1
    /\ steps' = Bump({"closesocket"})
    /\ pc' = "loop"
    /\ UNCHANGED <<op, win32, hostArg, hints, rc, result, resultState, fd,
                   func, m_FD, results, lastFail, useAfterFree, startFD, outcome,
                   exc, calls,
                   args>>

\* closesocket(fd); continue.  The close may itself set the last-error value.
CloseSocket ==
    /\ pc = "close"
    /\ open' = open \ {fd}
    /\ mine' = mine \ {fd}
    /\ sock' = [NoSock EXCEPT !.cand = sock.cand, !.state = "closed"]
    /\ errno' \in {errno, "EINTR"}
    /\ info' = info + 1
    /\ steps' = Bump({"closesocket"})
    /\ pc' = "loop"
    /\ UNCHANGED <<op, win32, hostArg, hints, rc, result, resultState, fd, error,
                   func, m_FD, results, lastFail, useAfterFree, startFD, outcome, exc, calls,
                   args>>

\* info == NULL: the loop ends without a break.
LoopDone ==
    /\ pc = "loop"
    /\ info > Len(result)
    /\ pc' = "free"
    /\ UNCHANGED <<op, win32, callLocals, m_FD, errno, open, mine, sock, results, lastFail,
                   steps, useAfterFree, startFD, outcome, exc, calls,
                   args>>

\* --------------------------------------------------------- after the loop

\* Mutant: the list is not released.
FreeAddrInfo_Leaks ==
    /\ pc = "free"
    /\ pc' = "check"
    /\ UNCHANGED <<op, win32, callLocals, m_FD, errno, open, mine, sock, results,
                   lastFail, steps, useAfterFree, startFD, outcome, exc, calls,
                   args>>

\* freeaddrinfo(result).

FreeAddrInfo ==
    /\ pc = "free"
    /\ resultState' = "freed"
    /\ steps' = Bump({"freeaddrinfo"})
    /\ pc' = "check"
    /\ UNCHANGED <<op, win32, hostArg, hints, rc, result, info, fd, error, func,
                   m_FD, errno, open, mine, sock, results, lastFail, useAfterFree, startFD,
                   outcome, exc, calls,
                   args>>

\* GetFD() != INVALID_SOCKET: the call returns.
ReturnOk ==
    /\ pc = "check"
    /\ m_FD # INVALID_SOCKET
    /\ outcome' = "returned"
    /\ pc' = "done"
    /\ UNCHANGED <<op, win32, callLocals, m_FD, errno, open, mine, sock, results, lastFail,
                   steps, useAfterFree, startFD, exc, calls,
                   args>>

\* What reading a local yields: its value, or anything when never assigned.
ReadLocal(v, domain) == IF v = Unset THEN domain ELSE {v}

\* Mutant: the terminal test looks at whether the loop succeeded, not at GetFD().
LogInvalidSocket_TestsLoopResult ==
    /\ pc = "check"
    /\ \A i \in 1..Len(results) : results[i].step # "ok"
    /\ steps' = Bump({"critical", "FormatErrorNumber"})
    /\ pc' = "throw"
    /\ UNCHANGED <<op, win32, callLocals, m_FD, errno, open, mine, sock, results,
                   lastFail, useAfterFree, startFD, outcome, exc, calls, args>>

\* Mutant: the terminal error is thrown without the critical log message.
LogInvalidSocket_Silent ==
    /\ pc = "check"
    /\ m_FD = INVALID_SOCKET
    /\ pc' = "throw"
    /\ UNCHANGED <<op, win32, callLocals, m_FD, errno, open, mine, sock, results,
                   lastFail, steps, useAfterFree, startFD, outcome, exc, calls,
                   args>>

\* GetFD() == INVALID_SOCKET: Log(LogCritical) "Invalid socket: " with
\* Utility::FormatErrorNumber(error).
LogInvalidSocket ==
    /\ pc = "check"
    /\ m_FD = INVALID_SOCKET
    /\ steps' = Bump({"critical", "FormatErrorNumber"})
    /\ pc' = "throw"
    /\ UNCHANGED <<op, win32, callLocals, m_FD, errno, open, mine, sock, results,
                   lastFail, useAfterFree, startFD, outcome, exc, calls,
                   args>>

\* throw socket_error: api func, errinfo_errno(error) or errinfo_win32_error(error).
ThrowSocketError ==
    /\ pc = "throw"
    /\ \E e \in ReadLocal(error, Errnos), f \in ReadLocal(func, ApiNames) :
        exc' = [api |-> f, code |-> e,
                kind |-> IF win32 THEN "win32_error" ELSE "errno"]
    /\ outcome' = "raised"
    /\ pc' = "done"
    /\ UNCHANGED <<op, win32, callLocals, m_FD, errno, open, mine, sock, results,
                   lastFail, steps, useAfterFree, startFD, calls,
                   args>>

\* ------------------------------------------------------------- properties

Done == pc = "done"
Resolved == rc = "0"
ResolveFailed == rc \in GaiErrors
Tried == 1..Len(results)
Succeeded == {i \in Tried : results[i].step = "ok"}
EveryCandidateFailed ==
    /\ Len(results) = Len(result)
    /\ Succeeded = {}
RaisedSocketError == outcome = "raised" /\ exc.kind \in {"errno", "win32_error"}
RaisedResolutionError ==
    /\ outcome = "raised"
    /\ exc.kind = "getaddrinfo_error"
    /\ exc.api = "getaddrinfo"

\* C1: a descriptor created for a candidate whose bind/connect fails is closed
\* before the next candidate's socket is created: at every point of a call at
\* most one descriptor created by the call is open, none is open when the loop
\* turns to the next candidate, and when the call has ended the only one still
\* open is the one handed to the owning socket object, if any.
C1_NoIntermediateDescriptorLeaks ==
    /\ mine \subseteq open
    /\ Cardinality(mine) <= 1
    /\ pc = "loop" => mine = {}
    /\ Done => mine = (IF Count("SetFD") > 0 THEN {m_FD} ELSE {})

C1_Witness ==
    /\ Done
    /\ outcome = "returned"
    /\ Count("closesocket") = 2
    /\ Count("SetFD") = 1
    /\ mine = {m_FD}

\* C2: when every candidate of a Bind or Connect call fails, the call raises a
\* SocketError whose operation name and error code are those of the failing
\* step of the last candidate.
C2_LastFailureIsRaised ==
    (Done /\ Resolved /\ EveryCandidateFailed) =>
        /\ RaisedSocketError
        /\ lastFail.cand = Len(result)
        /\ exc.api = lastFail.step
        /\ exc.code = lastFail.err

\* C3: after a successful resolution a call raises SocketError if and only if
\* no candidate's bind/connect succeeded.
C3_RaisesIffNoCandidateSucceeded ==
    (Done /\ Resolved) =>
        /\ RaisedSocketError <=> Succeeded = {}
        /\ outcome = "returned" <=> Succeeded # {}

C5_ResolveFailureRaisedImmediately ==
    ResolveFailed =>
        /\ pc \in {"gai_log", "gai_throw", "done"}
        /\ Count("getaddrinfo") = 1
        /\ Count("critical") = (IF pc = "gai_log" THEN 0 ELSE 1)
        /\ \A s \in StepNames \ {"getaddrinfo", "critical"} : Count(s) = 0
        /\ m_FD = startFD
        /\ resultState = "none"
        /\ Done => (RaisedResolutionError /\ exc.code = rc)

C5_Witness ==
    /\ Done
    /\ ResolveFailed
    /\ RaisedResolutionError
    /\ Count("critical") = 1
    /\ op = "Connect"

\* C6: once a candidate's bind/connect succeeds nothing more is attempted: the
\* successful candidate is the last one touched, every candidate before it
\* failed, and its descriptor is the one the owner holds.
C6_FirstSuccessStopsTheLoop ==
    Succeeded # {} =>
        /\ Succeeded = {Len(results)}
        /\ pc \in {"free", "check", "done"}
        /\ Count("socket") = Len(results)
        /\ Count(IF op = "Bind" THEN "bind" ELSE "connect") = Count("closesocket") + 1
        /\ Count("v6only") <= Count("socket")
        /\ Count("reuseaddr") <= Count("socket")
        /\ sock.cand = Len(results)
        /\ sock.state \in {"bound", "connected"}
        /\ m_FD = sock.fd
        /\ Count("SetFD") = 1

C6_Witness ==
    /\ Done
    /\ Succeeded = {2}
    /\ Len(result) = 3
    /\ Count("socket") = 2
    /\ m_FD = sock.fd

\* C7: one pass over the candidates in resolver order: the candidates tried are
\* 1, 2, ..., k, each once, the next one only after the one before failed, and
\* the pass ends only at a success or after the last candidate.
InCandidate == pc \in {"v6only", "reuseaddr", "bind", "connect", "close"}
C7_SinglePassInResolverOrder ==
    /\ \A i \in Tried : results[i].cand = i
    /\ Len(results) <= Len(result)
    /\ \A i \in Tried : i < Len(results) => results[i].step # "ok"
    /\ Count("socket") = (IF InCandidate /\ pc # "close" THEN Len(results) + 1
                          ELSE Len(results))
    /\ Count("bind") + Count("connect") <= Count("socket")
    /\ (Resolved /\ pc \in {"free", "check", "throw", "done"}) =>
           (Succeeded # {} \/ Len(results) = Len(result))

C7_Witness ==
    /\ Done
    /\ Len(results) = 3
    /\ Succeeded = {}
    /\ results[1].step = "socket"
    /\ results[2].step # "socket"

\* C8: after a successful resolution the resolver's list is released exactly
\* once on every exit path, after the last read of a candidate, never twice.
C8_ResultReleasedExactlyOnce ==
    /\ Count("freeaddrinfo") <= 1
    /\ ~useAfterFree
    /\ (resultState = "freed") <=> (Count("freeaddrinfo") = 1)
    /\ (Done /\ Resolved) => Count("freeaddrinfo") = 1
    /\ (Resolved /\ pc \notin {"check", "throw", "done"}) => resultState = "live"

C8_Witness ==
    /\ Done
    /\ RaisedSocketError
    /\ Count("freeaddrinfo") = 1
    /\ Count("closesocket") >= 1

\* C9: Bind with an empty host and family unspecified, the resolver answering
\* with wildcard candidates of both families and no step failing, succeeds with
\* a socket that accepts both IPv4 and IPv6 connections (an AF_INET6 socket
\* whose IPv6-only option is cleared).
DualStackAnswer == {result[i].family : i \in 1..Len(result)} = Families
NoStepFailed ==
    /\ lastFail = NoFail
    /\ sock.family = "AF_INET6" => sock.v6only = "cleared"
C9_DualStackBindAcceptsBothFamilies ==
    (/\ Done
     /\ op = "Bind"
     /\ hostArg = "NULL"
     /\ hints.ai_family = "AF_UNSPEC"
     /\ startFD = INVALID_SOCKET
     /\ Resolved
     /\ DualStackAnswer
     /\ NoStepFailed) =>
        /\ outcome = "returned"
        /\ sock.fd = m_FD
        /\ sock.family = "AF_INET6"
        /\ sock.v6only = "cleared"

\* C10: a raised terminal SocketError comes after exactly one critical log
\* message built with FormatErrorNumber; a call that returns has logged nothing
\* at critical severity and has not called FormatErrorNumber.
C10_CriticalLogOnlyBeforeSocketError ==
    /\ RaisedSocketError =>
           (Count("critical") = 1 /\ Count("FormatErrorNumber") = 1)
    /\ pc = "throw" => (Count("critical") = 1 /\ Count("FormatErrorNumber") = 1)
    /\ (Resolved /\ pc \notin {"throw", "done"}) =>
           (Count("critical") = 0 /\ Count("FormatErrorNumber") = 0)
    /\ outcome = "returned" =>
           (Count("critical") = 0 /\ Count("FormatErrorNumber") = 0)

C10_Witness ==
    /\ Done
    /\ RaisedSocketError
    /\ lastFail.cand = 3
    /\ Count("critical") = 1
    /\ Count("FormatErrorNumber") = 1

\* C11 (as stated): when candidates 1..N-1 fail and candidate N succeeds, the
\* call succeeds and exactly N-1 intermediate descriptors were closed.
FailedBeforeLastSucceeded ==
    /\ Done
    /\ Resolved
    /\ Len(results) = Len(result)
    /\ Succeeded = {Len(result)}
C11_ClosesOnePerFailedCandidate ==
    FailedBeforeLastSucceeded =>
        /\ outcome = "returned"
        /\ Count("closesocket") = Len(result) - 1

\* C11 (amended): when candidates 1..N-1 fail and candidate N succeeds, the call
\* succeeds, one descriptor was closed for every candidate that failed at
\* bind/connect and none for a candidate that failed at socket-create (which
\* opened none), and the only descriptor of the call left open is the owner's.
FailedAfterCreate == {i \in Tried : results[i].step \in {"bind", "connect"}}
FailedAtCreate == {i \in Tried : results[i].step = "socket"}
C11_ClosesEveryCreatedIntermediate ==
    FailedBeforeLastSucceeded =>
        /\ outcome = "returned"
        /\ Count("closesocket") = Cardinality(FailedAfterCreate)
        /\ Count("closesocket") = Len(result) - 1 - Cardinality(FailedAtCreate)
        /\ Count("socket") = Len(result)
        /\ mine = {m_FD}
        /\ m_FD = sock.fd

C11_Witness ==
    /\ FailedBeforeLastSucceeded
    /\ Len(result) = 3
    /\ results[1].step = "socket"
    /\ results[2].step \in {"bind", "connect"}
    /\ Count("closesocket") = 1

\* C13: in Bind every created socket goes through socket-create, clear
\* IPv6-only, (non-Windows) set address-reuse, bind, in that order; both options
\* are applied to every created socket before its bind; an option-set, failed
\* or not, goes on to the bind attempt, closes nothing and leaves the failure
\* record alone, whose operation name is only ever "socket" or "bind".
Created == Count("socket") - Cardinality(FailedAtCreate)
OptionsThenBind(v6, reuse, binds) ==
    /\ Count("v6only") = v6
    /\ Count("reuseaddr") = (IF win32 THEN 0 ELSE reuse)
    /\ Count("bind") = binds
C13_StepOrder ==
    op = "Bind" =>
        /\ pc = "v6only" => OptionsThenBind(Created - 1, Created - 1, Created - 1)
        /\ pc = "reuseaddr" =>
               (~win32 /\ OptionsThenBind(Created, Created - 1, Created - 1))
        /\ pc = "bind" => OptionsThenBind(Created, Created, Created - 1)
        /\ pc \notin {"v6only", "reuseaddr", "bind"} =>
               OptionsThenBind(Created, Created, Created)
        /\ func \in {Unset, "socket", "bind"}
        /\ lastFail.step \in {"none", "socket", "bind"}
        /\ Count("connect") = 0
C13_OptionStep ==
    pc \in {"v6only", "reuseaddr"} =>
        /\ pc' = (IF pc = "v6only" /\ ~win32 THEN "reuseaddr" ELSE "bind")
        /\ error' = error
        /\ func' = func
        /\ lastFail' = lastFail
        /\ fd' = fd
        /\ info' = info
        /\ open' = open
        /\ mine' = mine
C13_OptionsBestEffortBeforeBind == [](C13_StepOrder) /\ [][C13_OptionStep]_vars

C13_Witness ==
    /\ pc = "bind"
    /\ ~win32
    /\ sock.family = "AF_INET6"
    /\ sock.v6only = "default"
    /\ ~sock.reuseaddr
    /\ errno = "ENOPROTOOPT"
    /\ mine = {fd}
    /\ Count("v6only") = 2
    /\ Count("reuseaddr") = 2

\* C14: the error code in the failure record is the last-error value read at
\* the failing socket/bind/connect itself: the step that fails stores the code
\* it set, no other step of the call touches the record (not the close of the
\* failed descriptor, not an option-set), and a raised SocketError carries it.
InCall == pc \notin {"idle", "done"}
C14_RecordIsTheFailure ==
    /\ lastFail # NoFail => (error = lastFail.err /\ func = lastFail.step)
    /\ lastFail = NoFail => (error = Unset /\ func = Unset)
    /\ RaisedSocketError => (exc.code = lastFail.err /\ exc.api = lastFail.step)
C14_RecordStep ==
    InCall =>
        /\ lastFail' # lastFail => (error' = errno' /\ error' = lastFail'.err)
        /\ lastFail' = lastFail => (error' = error /\ func' = func)
C14_ErrorCapturedAtFailure == [](C14_RecordIsTheFailure) /\ [][C14_RecordStep]_vars

C14_Witness ==
    /\ Done
    /\ RaisedSocketError
    /\ lastFail.step \in {"bind", "connect"}
    /\ errno = "EINTR"
    /\ exc.code = lastFail.err
    /\ exc.code \in Errnos

\* C15: Connect is Bind's candidate loop without the option-sets and with
\* connect in place of bind: in both, what is attempted, what is closed, which
\* candidate's descriptor is handed off and how the call ends are the same
\* function of the per-step outcomes (with "bind" read as "connect"); Connect
\* applies neither IPv6-only nor address-reuse.
Attempt == IF op = "Bind" THEN "bind" ELSE "connect"
OtherAttempt == IF op = "Bind" THEN "connect" ELSE "bind"
C15_ConnectMirrorsBind ==
    /\ \A i \in Tried : results[i].step \in {"socket", Attempt, "ok"}
    /\ Count("socket") =
           (IF pc \in {"v6only", "reuseaddr", "bind", "connect"}
            THEN Len(results) + 1 ELSE Len(results))
    /\ Count(Attempt) = Cardinality(FailedAfterCreate) + Cardinality(Succeeded)
    /\ Count(OtherAttempt) = 0
    /\ Count("closesocket") =
           Cardinality(FailedAfterCreate) - (IF pc = "close" THEN 1 ELSE 0)
    /\ op = "Connect" =>
           /\ Count("v6only") = 0
           /\ Count("reuseaddr") = 0
           /\ sock.v6only = "default"
           /\ ~sock.reuseaddr
           /\ pc \notin {"v6only", "reuseaddr", "bind"}
    /\ (Done /\ Resolved) =>
           /\ outcome = (IF Succeeded # {} \/ startFD # INVALID_SOCKET
                         THEN "returned" ELSE "raised")
           /\ Succeeded # {} =>
                  (m_FD = sock.fd /\ sock.cand = Len(results) /\ mine = {m_FD})
           /\ Succeeded = {} =>
                  (m_FD = startFD /\ Len(results) = Len(result) /\ mine = {})
           /\ outcome = "raised" =>
                  /\ exc.api = lastFail.step
                  /\ exc.api \in {"socket", Attempt}
                  /\ exc.code = lastFail.err
                  /\ lastFail.cand = Len(result)

C15_Witness ==
    /\ Done
    /\ op = "Connect"
    /\ Len(results) = 3
    /\ results[1].step = "connect"
    /\ results[2].step = "socket"
    /\ Succeeded = {3}
    /\ Count("closesocket") = 1
    /\ Count("connect") = 2

\* C16: Bind(service, family) is Bind(empty node, service, family): entering
\* through either leaves the call in the same state, resolving a null host in
\* passive mode (the wildcard address, not loopback) for stream/TCP and the
\* caller's family.
C16_PassiveWildcard ==
    args.entry \in {"Bind/2", "Bind/3"} =>
        /\ op = "Bind"
        /\ hints = [ai_family |-> args.family, ai_socktype |-> "SOCK_STREAM",
                    ai_protocol |-> "IPPROTO_TCP", ai_flags |-> "AI_PASSIVE"]
        /\ hostArg = (IF args.node = "" THEN "NULL" ELSE args.node)
        /\ args.entry = "Bind/2" => args.node = ""
C16_EntryStep ==
    (pc' = "getaddrinfo" /\ pc # "getaddrinfo" /\ args'.entry = "Bind/2") =>
        BindNode("", args'.family)
C16_BindServiceIsBindEmptyNode == [](C16_PassiveWildcard) /\ [][C16_EntryStep]_vars

C16_Witness ==
    /\ Done
    /\ args.entry = "Bind/2"
    /\ args.family = "AF_INET6"
    /\ hostArg = "NULL"
    /\ hints.ai_flags = "AI_PASSIVE"
    /\ outcome = "returned"

\* C17: on the terminal SocketError path the operation name and error code that
\* are logged and raised were assigned by a failing socket/bind/connect of a
\* candidate of the same call; they are never read unassigned.
OnTerminalPath ==
    \/ pc = "check" /\ m_FD = INVALID_SOCKET
    \/ pc = "throw"
    \/ RaisedSocketError
C18_TerminalTestReadsOwner ==
    Done =>
        /\ startFD = INVALID_SOCKET =>
               (m_FD # INVALID_SOCKET <=> outcome = "returned")
        /\ (startFD # INVALID_SOCKET /\ Resolved /\ EveryCandidateFailed) =>
               /\ outcome = "returned"
               /\ exc = NoExc
               /\ m_FD = startFD
               /\ Count("critical") = 0

C18_Witness ==
    /\ Done
    /\ startFD # INVALID_SOCKET
    /\ Resolved
    /\ EveryCandidateFailed
    /\ Len(result) = 2
    /\ outcome = "returned"
    /\ m_FD = startFD

\* C19: a call hands a descriptor to the owner (SetFD) at most once, and only a
\* descriptor it created itself, whose bind/connect succeeded and which is
\* open; a failed or closed descriptor is never handed off, and the owner's
\* descriptor is never closed by the call.
C19_Handoff ==
    /\ Count("SetFD") <= 1
    /\ Count("SetFD") = 1 =>
           /\ m_FD = sock.fd
           /\ sock.state \in {"bound", "connected"}
           /\ m_FD \in mine
           /\ Succeeded = {sock.cand}
    /\ Count("SetFD") = 0 => (m_FD = startFD /\ Succeeded = {})
    /\ sock.state = "failed" => m_FD # sock.fd
    /\ m_FD # INVALID_SOCKET => m_FD \in open
C19_HandoffStep ==
    m_FD' # m_FD =>
        /\ m_FD' = fd
        /\ fd \in open
        /\ fd \in mine
        /\ sock.fd = fd
        /\ sock.state = "created"
        /\ sock'.state \in {"bound", "connected"}
        /\ open' = open
C19_OnlyTheSuccessfulDescriptorIsHandedOff == [](C19_Handoff) /\ [][C19_HandoffStep]_vars

C19_Witness ==
    /\ Done
    /\ Count("SetFD") = 1
    /\ Count("closesocket") >= 1
    /\ startFD # INVALID_SOCKET
    /\ m_FD # startFD
    /\ m_FD \in open


Next ==
    \/ CallBind
    \/ CallBindService
    \/ CallConnect
    \/ GetAddrInfoFails
    \/ LogResolveFailure
    \/ ThrowResolveError
    \/ GetAddrInfoSucceeds
    \/ SocketFails
    \/ SocketSucceeds
    \/ SetV6Only
    \/ SetReuseAddr
    \/ BindFails
    \/ BindSucceeds
    \/ ConnectFails
    \/ ConnectSucceeds
    \/ CloseSocket
    \/ LoopDone
    \/ FreeAddrInfo
    \/ ReturnOk
    \/ LogInvalidSocket
    \/ ThrowSocketError

Spec == Init /\ [][Next]_vars

\* The steps of a running call: everything but the entry of a new call.
CallStep ==
    \/ GetAddrInfoFails
    \/ LogResolveFailure
    \/ ThrowResolveError
    \/ GetAddrInfoSucceeds
    \/ SocketFails
    \/ SocketSucceeds
    \/ SetV6Only
    \/ SetReuseAddr
    \/ BindFails
    \/ BindSucceeds
    \/ ConnectFails
    \/ ConnectSucceeds
    \/ CloseSocket
    \/ LoopDone
    \/ FreeAddrInfo
    \/ ReturnOk
    \/ LogInvalidSocket
    \/ ThrowSocketError

\* Every system call returns: a running call always takes its next step.
FairSpec == Spec /\ WF_vars(CallStep)

\* C20: provided every system call returns, a call over N candidates ends after
\* at most N socket-creates and N bind/connect attempts, and the candidates are
\* worked one after another: a candidate's descriptor is opened and settled
\* (handed off or closed) before the next candidate is touched.
StepsLeft ==
    CASE pc = "getaddrinfo" -> 6 * MaxCand + 12
      [] pc = "loop"        -> 6 * (Len(result) + 1 - info) + 9
      [] pc = "v6only"      -> 6 * (Len(result) + 1 - info) + 8
      [] pc = "reuseaddr"   -> 6 * (Len(result) + 1 - info) + 7
      [] pc = "bind"        -> 6 * (Len(result) + 1 - info) + 6
      [] pc = "connect"     -> 6 * (Len(result) + 1 - info) + 6
      [] pc = "close"       -> 6 * (Len(result) + 1 - info) + 5
      [] pc = "free"        -> 3
      [] pc = "check"       -> 2
      [] pc = "gai_log"     -> 2
      [] pc = "throw"       -> 1
      [] pc = "gai_throw"   -> 1
      [] OTHER              -> 0
C20_Bounded ==
    /\ Count("socket") <= Len(result)
    /\ Count("bind") + Count("connect") <= Len(result)
    /\ StepsLeft >= 0
    /\ InCall => ENABLED CallStep
    /\ InCandidate => (sock.cand = info /\ info \in 1..Len(result))
    /\ pc \in {"v6only", "reuseaddr", "bind", "connect", "close"} =>
           (mine = {fd} /\ sock.fd = fd)
    /\ pc = "loop" => (mine = {} /\ info = Len(results) + 1)
C20_StepCountsDown == InCall => StepsLeft' < StepsLeft
C20_CallTerminates ==
    /\ [](C20_Bounded)
    /\ [][C20_StepCountsDown]_vars
    /\ (InCall ~> Done)

C20_Witness ==
    /\ Done
    /\ Len(result) = 3
    /\ Count("socket") = 3
    /\ Count("bind") + Count("connect") = 3
    /\ Count("closesocket") = 3
    /\ RaisedSocketError
====
